---- MODULE Spec2Model ----
(***************************************************************************)
(* The competition dashboard of src/tempCodeRunnerFile.py: the CSV load,   *)
(* the long-form / wide-form normalization with to_status, the layout      *)
(* that reads the filter options, and the render_view callback.            *)
(*                                                                         *)
(* A text is a sequence of one-character strings; a column name and a      *)
(* Feature / Competitor label is a string; the float nan that pandas puts  *)
(* in an empty cell is the value NaN.                                      *)
(***************************************************************************)
EXTENDS Integers, Sequences, FiniteSets, TLC

VARIABLES
    raw,                \* the CSV file at DATA_PATH
    df,                 \* the module-level DataFrame
    pc,                 \* where the module's start-up stands
    err,                \* the exception that ended start-up, if any
    competitor_filter,  \* value of the dropdown "competitor-filter"
    feature_filter,     \* value of the dropdown "feature-filter"
    view_mode,          \* value of the radio items "view-mode"
    view                \* children of "main-view": what render_view returned last

controls == <<competitor_filter, feature_filter, view_mode>>

vars == <<raw, df, pc, err, competitor_filter, feature_filter, view_mode, view>>

\* ------------------------------------------------------------------ bounds
MaxRows == 2
MaxChunks == 2

\* ------------------------------------------------------------------- texts
NA_LOWER == <<"n", "a">>
N_SLASH_A == <<"n", "/", "a">>
\* The third literal of line 19, as the file holds it: n, U+201A, U+00C5, U+00D1, a.
N_MOJIBAKE_A == <<"n", "U+201A", "U+00C5", "U+00D1", "a">>
NEED_TO_REQUEST == <<"n", "e", "e", "d", " ", "t", "o", " ", "r", "e", "q", "u", "e", "s", "t">>
PRIMARILY == <<"p", "r", "i", "m", "a", "r", "i", "l", "y">>
MISSING == <<"m", "i", "s", "s", "i", "n", "g">>
LACKS == <<"l", "a", "c", "k", "s">>
FOR_USERS == <<"f", "o", "r", " ", "u", "s", "e", "r", "s", " ", "w", "h", "o", " ", "c", "a", "n", " ", "r", "e", "a", "d">>
YES == <<"y", "e", "s">>
NO == <<"n", "o">>
PARTIAL == <<"p", "a", "r", "t", "i", "a", "l">>
NAN_TEXT == <<"n", "a", "n">>

\* The float nan of an empty cell: a value of its own, which no text equals
\* (no text holds the one-element token).
NaN == <<"float('nan')">>

UpperChars ==
    <<"A", "B", "C", "D", "E", "F", "G", "H", "I", "J", "K", "L", "M", "N", "O", "P",
      "Q", "R", "S", "T", "U", "V", "W", "X", "Y", "Z", "U+00C5", "U+00D1">>

LowerChars ==
    <<"a", "b", "c", "d", "e", "f", "g", "h", "i", "j", "k", "l", "m", "n", "o", "p",
      "q", "r", "s", "t", "u", "v", "w", "x", "y", "z", "U+00E5", "U+00F1">>

\* str.lower on one character.
LowerChar(c) ==
    IF \E i \in 1..Len(UpperChars) : UpperChars[i] = c
    THEN LowerChars[CHOOSE i \in 1..Len(UpperChars) : UpperChars[i] = c]
    ELSE c

\* str.lower
Lower(s) == [i \in 1..Len(s) |-> LowerChar(s[i])]

Whitespace == {" "}

\* str.strip: the text without its leading and trailing whitespace.
Strip(s) ==
    LET keep == {i \in 1..Len(s) : s[i] \notin Whitespace}
    IN  IF keep = {} THEN <<>>
        ELSE LET lo == CHOOSE i \in keep : \A j \in keep : i <= j
                 hi == CHOOSE i \in keep : \A j \in keep : j <= i
             IN  SubSeq(s, lo, hi)

\* Python's `kw in t` on two texts.
Contains(t, kw) ==
    \E i \in 1..(Len(t) - Len(kw) + 1) : SubSeq(t, i, i + Len(kw) - 1) = kw

\* str(text): a text is itself, the float nan prints as "nan".
Str(v) == IF v = NaN THEN NAN_TEXT ELSE v

\* ------------------------------------------------------------- to_status
\* Line 18 lowercases and does not trim. The third literal of line 19 holds
\* capital letters, so no lowercased text equals it.
\* Variant of to_status: "na" and "n/a" tested as substrings, not as the whole text.
to_status_na_substring(text) ==
    LET t == Lower(Str(text))
    IN  IF Contains(t, NA_LOWER) \/ Contains(t, N_SLASH_A) THEN NA_LOWER
        ELSE IF Contains(t, NEED_TO_REQUEST) THEN NO
        ELSE IF \/ Contains(t, PRIMARILY) \/ Contains(t, MISSING)
                \/ Contains(t, LACKS) \/ Contains(t, FOR_USERS) THEN PARTIAL
        ELSE YES

to_status(text) ==
    LET t == Lower(Str(text))
    IN  IF t \in {NA_LOWER, N_SLASH_A, N_MOJIBAKE_A} THEN NA_LOWER
        ELSE IF Contains(t, NEED_TO_REQUEST) THEN NO
        ELSE IF \/ Contains(t, PRIMARILY) \/ Contains(t, MISSING)
                \/ Contains(t, LACKS) \/ Contains(t, FOR_USERS) THEN PARTIAL
        ELSE YES

\* ------------------------------------------------------------ the CSV file
Range(s) == {s[i] : i \in 1..Len(s)}

\* The spellings pandas.read_csv reads as a missing value by default.
NaValues ==
    { <<>>, <<"N", "/", "A">>, <<"N", "A">>, <<"n", "/", "a">>, <<"n", "a", "n">>,
      <<"N", "a", "N">>, <<"n", "u", "l", "l">>, <<"N", "U", "L", "L">>,
      <<"N", "o", "n", "e">>, <<"#", "N", "/", "A">>, <<"#", "N", "A">>,
      <<"<", "N", "A", ">">>, <<"-", "N", "a", "N">>, <<"-", "n", "a", "n">> }

\* The columns whose cells are labels (strings no spelling of a missing value).
LabelColumns == {"Feature", "Competitor"}

read_cell(col, v) ==
    IF col \in LabelColumns THEN v ELSE IF v \in NaValues THEN NaN ELSE v

\* pd.read_csv(DATA_PATH): the header kept, every cell parsed.
read_csv(file) ==
    [columns |-> file.columns,
     rows |-> [i \in 1..Len(file.rows) |->
                 [c \in Range(file.columns) |-> read_cell(c, file.rows[i][c])]]]

\* ------------------------------------------------- lines 10-26: normalization
\* "Status" in df.columns and "Competitor" in df.columns
IsLongForm(frame) ==
    "Status" \in Range(frame.columns) /\ "Competitor" \in Range(frame.columns)

\* The .str accessor of line 11 exists on a column of texts (and on an empty
\* one); a column read as all-missing is a float column and has none.
HasStrAccessor(frame) ==
    Len(frame.rows) = 0 \/ \E i \in 1..Len(frame.rows) : frame.rows[i].Status # NaN

\* .str.lower().str.strip() on one cell: a missing cell stays missing.
normalize_status(v) == IF v = NaN THEN NaN ELSE Strip(Lower(v))

\* df["Status"] = df["Status"].str.lower().str.strip()
normalize_long(frame) ==
    [columns |-> frame.columns,
     rows |-> [i \in 1..Len(frame.rows) |->
                 [frame.rows[i] EXCEPT !.Status = normalize_status(@)]]]

\* The columns melt turns into rows: every column but the id column.
ValueColumns(frame) == SelectSeq(frame.columns, LAMBDA c : c # "Feature")

\* Variant of melt: the records of missing cells are dropped (as stack would).
melt_dropna(frame) ==
    LET F == Len(frame.rows)
        vc == ValueColumns(frame)
        all == [k \in 1..(F * Len(vc)) |->
                  LET c == vc[((k - 1) \div F) + 1]
                      r == frame.rows[((k - 1) % F) + 1]
                  IN  [Feature |-> r.Feature, Competitor |-> c, Notes |-> r[c]]]
    IN  [columns |-> <<"Feature", "Competitor", "Notes">>,
         rows |-> SelectSeq(all, LAMBDA rec : rec.Notes # NaN)]

\* df.melt(id_vars=["Feature"], var_name="Competitor", value_name="Notes"):
\* column by column, and within a column row by row.
melt(frame) ==
    LET F == Len(frame.rows)
        vc == ValueColumns(frame)
    IN  [columns |-> <<"Feature", "Competitor", "Notes">>,
         rows |-> [k \in 1..(F * Len(vc)) |->
                     LET c == vc[((k - 1) \div F) + 1]
                         r == frame.rows[((k - 1) % F) + 1]
                     IN  [Feature |-> r.Feature, Competitor |-> c, Notes |-> r[c]]]]

\* df["Status"] = df["Notes"].map(to_status)
map_status(frame) ==
    [columns |-> frame.columns \o <<"Status">>,
     rows |-> [i \in 1..Len(frame.rows) |->
                 [Feature |-> frame.rows[i].Feature,
                  Competitor |-> frame.rows[i].Competitor,
                  Notes |-> frame.rows[i].Notes,
                  Status |-> to_status(frame.rows[i].Notes)]]]

\* ------------------------------------------------------------- the inputs
FeatureLabels == {"F1", "F2"}
CompetitorLabels == {"A", "B"}

T_NEED_SENTENCE == <<"N", "e", "e", "d", " ", "t", "o", " ", "r", "e", "q", "u", "e", "s", "t">>
T_YES_PADDED == <<" ", "Y", "e", "s", " ">>
T_PARTIAL == <<"P", "a", "r", "t", "i", "a", "l">>
T_MAYBE == <<"M", "a", "y", "b", "e">>

\* Cells of a competitor column of a wide-form file.
NoteTexts == {NA_LOWER, T_NEED_SENTENCE, <<>>}

\* Cells of the Status column of a long-form file.
StatusTexts == {T_YES_PADDED, T_PARTIAL, T_MAYBE, <<>>}

Headers ==
    { <<"Feature", "A", "B">>, <<"A">>, <<"Feature">>,
      <<"Feature", "Competitor", "Status">>, <<"Competitor", "Status">> }

CellDomain(c) ==
    CASE c = "Feature" -> FeatureLabels
      [] c = "Competitor" -> CompetitorLabels
      [] c = "Status" -> StatusTexts
      [] OTHER -> NoteTexts

RECURSIVE RowsOver(_)
RowsOver(cols) ==
    IF cols = <<>> THEN {<<>>}
    ELSE {(cols[1] :> v) @@ r : v \in CellDomain(cols[1]), r \in RowsOver(Tail(cols))}

RECURSIVE SeqsUpTo(_, _)
SeqsUpTo(S, n) ==
    IF n = 0 THEN {<<>>}
    ELSE LET shorter == SeqsUpTo(S, n - 1)
         IN  shorter \cup {Append(q, x) : q \in shorter, x \in S}

\* The files the loader is run on.
RawInputs ==
    UNION {{[columns |-> h, rows |-> rs] : rs \in SeqsUpTo(RowsOver(h), MaxRows)} : h \in Headers}

\* A value of a multi-select filter: None, or a list of labels.
Selections(labels) ==
    {[none |-> TRUE, values |-> {}]} \cup {[none |-> FALSE, values |-> v] : v \in SUBSET labels}

NoSelection == [none |-> TRUE, values |-> {}]

\* "main-view" before any callback has run.
NoView == [kind |-> "none", index |-> {}, columns |-> {}, cells |-> <<>>]

\* ---------------------------------------------------------------- actions
Init ==
    /\ raw \in RawInputs
    /\ df = [columns |-> <<>>, rows |-> <<>>]
    /\ pc = "read"
    /\ err = "none"
    /\ competitor_filter = NoSelection
    /\ feature_filter = NoSelection
    /\ view_mode = "table"
    /\ view = NoView

\* line 6
ReadCsv ==
    /\ pc = "read"
    /\ df' = read_csv(raw)
    /\ pc' = "branch"
    /\ UNCHANGED <<raw, err, controls, view>>

\* lines 10-11
NormalizeLong ==
    /\ pc = "branch"
    /\ IsLongForm(df)
    /\ HasStrAccessor(df)
    /\ df' = normalize_long(df)
    /\ pc' = "layout"
    /\ UNCHANGED <<raw, err, controls, view>>

\* line 11 on a Status column without texts
NormalizeLongFails ==
    /\ pc = "branch"
    /\ IsLongForm(df)
    /\ ~HasStrAccessor(df)
    /\ err' = "AttributeError"
    /\ pc' = "failed"
    /\ UNCHANGED <<raw, df, controls, view>>

\* lines 12-26
MeltWide ==
    /\ pc = "branch"
    /\ ~IsLongForm(df)
    /\ "Feature" \in Range(df.columns)
    /\ df' = map_status(melt(df))
    /\ pc' = "layout"
    /\ UNCHANGED <<raw, err, controls, view>>

\* line 14 without the id column
MeltWideFails ==
    /\ pc = "branch"
    /\ ~IsLongForm(df)
    /\ "Feature" \notin Range(df.columns)
    /\ err' = "KeyError"
    /\ pc' = "failed"
    /\ UNCHANGED <<raw, df, controls, view>>

\* df[col].unique()
unique(frame, col) == {frame.rows[i][col] : i \in 1..Len(frame.rows)}

\* lines 33-66: the filters list df["Competitor"] and df["Feature"], every
\* value selected; the view mode starts as table.
BuildLayout ==
    /\ pc = "layout"
    /\ {"Competitor", "Feature"} \subseteq Range(df.columns)
    /\ pc' = "serving"
    /\ competitor_filter' = [none |-> FALSE, values |-> unique(df, "Competitor")]
    /\ feature_filter' = [none |-> FALSE, values |-> unique(df, "Feature")]
    /\ view_mode' = "table"
    /\ UNCHANGED <<raw, df, err, view>>

BuildLayoutFails ==
    /\ pc = "layout"
    /\ ~({"Competitor", "Feature"} \subseteq Range(df.columns))
    /\ err' = "KeyError"
    /\ pc' = "failed"
    /\ UNCHANGED <<raw, df, controls, view>>

\* ------------------------------------------------------------ render_view
Modes == {"table", "heatmap", "other"}

\* `not competitors`
Falsy(sel) == sel.none \/ sel.values = {}

\* Variant of line 75: `and` in place of `or`.
nothing_selected_both(competitors, features) == Falsy(competitors) /\ Falsy(features)

\* line 75: not competitors or not features
nothing_selected(competitors, features) == Falsy(competitors) \/ Falsy(features)

\* line 78: df[df["Competitor"].isin(competitors) & df["Feature"].isin(features)]
filter_rows(frame, competitors, features) ==
    SelectSeq(frame.rows, LAMBDA r : r.Competitor \in competitors /\ r.Feature \in features)

\* line 106
score_map == (YES :> 3) @@ (PARTIAL :> 2) @@ (NO :> 1) @@ (NA_LOWER :> 0)

\* line 107: .map(score_map).fillna(0) on one Status
score(status) == IF status \in DOMAIN score_map THEN score_map[status] ELSE 0

\* The records of one (Feature, Competitor) group that hold a value.
group(rows, notna, p) ==
    {i \in 1..Len(rows) : rows[i].Feature = p[1] /\ rows[i].Competitor = p[2] /\ notna[i]}

\* Variant of pivot_table: aggfunc="last".
pivot_table_last(rows, vals, notna) ==
    LET pairs == {<<rows[i].Feature, rows[i].Competitor>> : i \in 1..Len(rows)}
    IN  [p \in {q \in pairs : group(rows, notna, q) # {}} |->
           vals[CHOOSE i \in group(rows, notna, p) : \A j \in group(rows, notna, p) : j <= i]]

\* pivot_table(index="Feature", columns="Competitor", values=..., aggfunc="first"):
\* per group the first value that is not missing; a group without one has no cell.
pivot_table(rows, vals, notna) ==
    LET pairs == {<<rows[i].Feature, rows[i].Competitor>> : i \in 1..Len(rows)}
    IN  [p \in {q \in pairs : group(rows, notna, q) # {}} |->
           vals[CHOOSE i \in group(rows, notna, p) : \A j \in group(rows, notna, p) : i <= j]]

\* lines 82 and 109: the grid over the selected features and competitors; a
\* pair the pivot has no cell for is missing (not in the domain of cells).
reindex(kind, cells, features, competitors) ==
    [kind |-> kind, index |-> features, columns |-> competitors,
     cells |-> [p \in (DOMAIN cells) \cap (features \X competitors) |-> cells[p]]]

Prompt == [kind |-> "prompt", index |-> {}, columns |-> {}, cells |-> <<>>]

\* lines 80-104
table_view(dff, competitors, features) ==
    reindex("table",
            pivot_table(dff, [i \in 1..Len(dff) |-> dff[i].Status],
                        [i \in 1..Len(dff) |-> dff[i].Status # NaN]),
            features, competitors)

\* lines 106-119
heatmap_view(dff, competitors, features) ==
    reindex("heatmap",
            pivot_table(dff, [i \in 1..Len(dff) |-> score(dff[i].Status)],
                        [i \in 1..Len(dff) |-> TRUE]),
            features, competitors)

\* What render_view returns.
render_result(frame, competitors, features, mode) ==
    IF nothing_selected(competitors, features) THEN Prompt
    ELSE LET dff == filter_rows(frame, competitors.values, features.values)
         IN  IF mode = "table" THEN table_view(dff, competitors.values, features.values)
             ELSE heatmap_view(dff, competitors.values, features.values)

\* Variant of lines 78 and 107: the filtered frame with its score column is
\* bound to the module-level df instead of a local copy.
dataset_after_render_shared(frame, competitors, features, mode) ==
    IF nothing_selected(competitors, features) \/ mode = "table" THEN frame
    ELSE [columns |-> frame.columns \o <<"score">>,
          rows |-> filter_rows(frame, competitors.values, features.values)]

\* The module-level df after a call: line 78 takes a copy, and line 107 adds
\* the score column to that copy.
dataset_after_render(frame, competitors, features, mode) == frame

render_view(competitors, features, mode) ==
    /\ view' = render_result(df, competitors, features, mode)
    /\ df' = dataset_after_render(df, competitors, features, mode)

\* lines 68-73: a change of one input runs the callback on the values of all
\* three (choosing the value an input already has is the page's first call).
ChangeCompetitors ==
    /\ pc = "serving"
    /\ \E v \in Selections(CompetitorLabels) :
          /\ competitor_filter' = v
          /\ render_view(v, feature_filter, view_mode)
    /\ UNCHANGED <<raw, pc, err, feature_filter, view_mode>>

ChangeFeatures ==
    /\ pc = "serving"
    /\ \E v \in Selections(FeatureLabels) :
          /\ feature_filter' = v
          /\ render_view(competitor_filter, v, view_mode)
    /\ UNCHANGED <<raw, pc, err, competitor_filter, view_mode>>

ChangeMode ==
    /\ pc = "serving"
    /\ \E m \in Modes :
          /\ view_mode' = m
          /\ render_view(competitor_filter, feature_filter, m)
    /\ UNCHANGED <<raw, pc, err, competitor_filter, feature_filter>>

Next ==
    \/ ReadCsv
    \/ NormalizeLong
    \/ NormalizeLongFails
    \/ MeltWide
    \/ MeltWideFails
    \/ BuildLayout
    \/ BuildLayoutFails
    \/ ChangeCompetitors
    \/ ChangeFeatures
    \/ ChangeMode

Spec == Init /\ [][Next]_vars

\* ------------------------------------------- the classifier on many texts
T_NEED_MIXED == <<"N", "e", "e", "d", " ", "T", "o", " ", "R", "e", "q", "u", "e", "s", "t">>
T_MISSING_UPPER == <<"M", "I", "S", "S", "I", "N", "G">>

\* The pieces the Notes texts are put together from.
Chunks ==
    { NA_LOWER, <<"N", "A">>, N_SLASH_A, <<"N", "/", "A">>, <<" ">>, <<"x">>,
      NEED_TO_REQUEST, T_NEED_MIXED, PRIMARILY, T_MISSING_UPPER, LACKS, FOR_USERS,
      N_MOJIBAKE_A }

RECURSIVE TextsUpTo(_)
TextsUpTo(n) ==
    IF n = 0 THEN {<<>>}
    ELSE LET shorter == TextsUpTo(n - 1)
         IN  shorter \cup {t \o c : t \in shorter, c \in Chunks}

\* A wide-form file of one feature and one competitor, whose cell is the text.
ClassifyInputs ==
    {[columns |-> <<"Feature", "A">>, rows |-> <<[Feature |-> "F1", A |-> t]>>] :
        t \in TextsUpTo(MaxChunks)}

InitClassify ==
    /\ raw \in ClassifyInputs
    /\ df = [columns |-> <<>>, rows |-> <<>>]
    /\ pc = "read"
    /\ err = "none"
    /\ competitor_filter = NoSelection
    /\ feature_filter = NoSelection
    /\ view_mode = "table"
    /\ view = NoView

NextClassify == ReadCsv \/ MeltWide

SpecClassify == InitClassify /\ [][NextClassify]_vars

\* ------------------------------------------------------------- the claims
StatusEnum == {YES, PARTIAL, NO, NA_LOWER}

\* The records of the wide-form branch carry Notes.
Melted == pc \in {"layout", "serving"} /\ "Notes" \in Range(df.columns)

\* The specification's normalization: convert to text, lowercase, trim.
Normalized(v) == Strip(Lower(Str(v)))

IsNaText(t) == t \in {NA_LOWER, N_SLASH_A}

IsPartialText(t) ==
    Contains(t, PRIMARILY) \/ Contains(t, MISSING) \/ Contains(t, LACKS) \/ Contains(t, FOR_USERS)

\* C1: to_status applies its rules first-match-wins on the normalized text:
\* "na" or "n/a" gives na, else "need to request" gives no, else a partial
\* keyword gives partial, else yes.
C1_FirstMatchOrder ==
    Melted => \A i \in 1..Len(df.rows) :
        LET t == Normalized(df.rows[i].Notes)
        IN  df.rows[i].Status =
                IF IsNaText(t) THEN NA_LOWER
                ELSE IF Contains(t, NEED_TO_REQUEST) THEN NO
                ELSE IF IsPartialText(t) THEN PARTIAL
                ELSE YES

\* C2: a Notes text that is "na" or "n/a" after lowercasing and trimming has
\* Status na.
C2_NaAnyCasePadded ==
    Melted => \A i \in 1..Len(df.rows) :
        IsNaText(Normalized(df.rows[i].Notes)) => df.rows[i].Status = NA_LOWER

\* C3: a Notes text that is not "na"/"n/a" and holds none of the keywords, in
\* any letter case, has Status yes; so do empty and whitespace-only cells.
C3_DefaultYes ==
    Melted => \A i \in 1..Len(df.rows) :
        LET t == Lower(Str(df.rows[i].Notes))
        IN  (~IsNaText(Strip(t)) /\ ~Contains(t, NEED_TO_REQUEST) /\ ~IsPartialText(t))
                => df.rows[i].Status = YES

\* A whitespace-only cell was classified yes.
C3_Witness ==
    /\ Melted
    /\ \E i \in 1..Len(df.rows) :
          /\ Len(df.rows[i].Notes) = 2
          /\ Strip(df.rows[i].Notes) = <<>>
          /\ df.rows[i].Status = YES

\* The wide-form table the reshape starts from.
WideTable == read_csv(raw)

\* C4: the reshape of F feature rows and C competitor columns gives F x C
\* records: each cell of the table is one record with its row's Feature, its
\* column's name as Competitor and its value as Notes, and there is no other
\* record.
C4_ReshapeIsExact ==
    Melted =>
        LET w == WideTable
            F == Len(w.rows)
            vc == Range(ValueColumns(w))
        IN  /\ Len(df.rows) = F * Cardinality(vc)
            /\ \A i \in 1..F : \A c \in vc :
                  Cardinality({k \in 1..Len(df.rows) :
                                  /\ df.rows[k].Feature = w.rows[i].Feature
                                  /\ df.rows[k].Competitor = c
                                  /\ df.rows[k].Notes = w.rows[i][c]})
                    = Cardinality({j \in 1..F :
                                  /\ w.rows[j].Feature = w.rows[i].Feature
                                  /\ w.rows[j][c] = w.rows[i][c]})
            /\ \A k \in 1..Len(df.rows) : \E i \in 1..F : \E c \in vc :
                  /\ df.rows[k].Feature = w.rows[i].Feature
                  /\ df.rows[k].Competitor = c
                  /\ df.rows[k].Notes = w.rows[i][c]

\* Two feature rows and two competitor columns, one of the cells empty, were
\* reshaped into four records.
C4_Witness ==
    /\ Melted
    /\ Len(raw.rows) = 2
    /\ raw.columns = <<"Feature", "A", "B">>
    /\ raw.rows[1].Feature # raw.rows[2].Feature
    /\ raw.rows[1].A = <<>>
    /\ Len(df.rows) = 4

\* C5: after loading, every record's Status is one of yes, partial, no, na,
\* in the wide-form branch and in the long-form branch.
C5_StatusInEnum ==
    pc = "serving" =>
        \A i \in 1..Len(df.rows) : df.rows[i].Status \in StatusEnum

RequiredColumns == {"Feature", "Competitor", "Status"}

\* C6: loading fails when a required column is absent (Feature in the
\* wide-form branch; Feature, Competitor or Status in the long-form branch),
\* the program never goes on past loading with a dataset that lacks a
\* required column, and loading fails for no other reason.
C6_SchemaErrorOnly ==
    /\ pc \in {"layout", "serving"} => RequiredColumns \subseteq Range(df.columns)
    /\ pc = "failed" =>
          IF IsLongForm(read_csv(raw))
          THEN ~(RequiredColumns \subseteq Range(raw.columns))
          ELSE "Feature" \notin Range(raw.columns)

\* C7: render_view returns the prompt whenever the competitor selection or
\* the feature selection is empty or absent, whatever the mode; with both
\* non-empty it returns a table for mode table and a heatmap for any other.
C7_PromptIffNothingSelected ==
    (pc = "serving" /\ view # NoView) =>
        view.kind = IF Falsy(competitor_filter) \/ Falsy(feature_filter) THEN "prompt"
                    ELSE IF view_mode = "table" THEN "table" ELSE "heatmap"

\* The prompt was returned for an empty competitor selection and a feature
\* selection that is not empty, on a loaded dataset with records.
C7_Witness ==
    /\ pc = "serving"
    /\ view.kind = "prompt"
    /\ ~competitor_filter.none /\ competitor_filter.values = {}
    /\ feature_filter.values # {}
    /\ Len(df.rows) > 0

\* The records of the dataset for one (Feature, Competitor) pair, in order.
RecordsOf(p) ==
    {i \in 1..Len(df.rows) : df.rows[i].Feature = p[1] /\ df.rows[i].Competitor = p[2]}

\* The score table of the specification.
ScoreTable(status) ==
    CASE status = YES -> 3 [] status = PARTIAL -> 2 [] status = NO -> 1 [] OTHER -> 0

\* C8: in the heatmap grid every cell holds the score of its record's Status
\* (yes 3, partial 2, no 1, na 0), and a selected pair without a record
\* holds score 0.
C8_ScoreGrid ==
    view.kind = "heatmap" =>
        \A p \in view.index \X view.columns :
            /\ p \in DOMAIN view.cells
            /\ IF RecordsOf(p) = {} THEN view.cells[p] = 0
               ELSE \E i \in RecordsOf(p) : view.cells[p] = ScoreTable(df.rows[i].Status)

\* C9: a render_view call leaves the process-wide dataset as it was: the
\* same records, the same columns, the same Status values.
C9_DatasetUnchanged == [][pc = "serving" => df' = df]_vars

\* A heatmap, whose score column is computed on the filtered copy, was
\* rendered from a dataset with records.
C9_Witness ==
    /\ pc = "serving"
    /\ view.kind = "heatmap"
    /\ DOMAIN view.cells # {}
    /\ "score" \notin Range(df.columns)

Min(S) == CHOOSE i \in S : \A j \in S : i <= j
Max(S) == CHOOSE i \in S : \A j \in S : j <= i

\* C10 as stated: the grid cell of a pair with several records shows the
\* value of the last of them in dataset order.
C10_LastWriteWins ==
    view.kind \in {"table", "heatmap"} =>
        \A p \in view.index \X view.columns :
            RecordsOf(p) # {} =>
                LET last == df.rows[Max(RecordsOf(p))].Status
                IN  IF view.kind = "heatmap"
                    THEN p \in DOMAIN view.cells /\ view.cells[p] = score(last)
                    ELSE IF last = NaN THEN p \notin DOMAIN view.cells
                    ELSE p \in DOMAIN view.cells /\ view.cells[p] = last

\* C10 amended: the grid cell of a pair with several records shows the value
\* of the first of them in dataset order that has one: in the heatmap the
\* score of the first record, in the table the first Status that is not
\* missing (no cell when all are missing).
C10_FirstWins ==
    view.kind \in {"table", "heatmap"} =>
        \A p \in view.index \X view.columns :
            RecordsOf(p) # {} =>
                LET valued == {i \in RecordsOf(p) : df.rows[i].Status # NaN}
                IN  IF view.kind = "heatmap"
                    THEN /\ p \in DOMAIN view.cells
                         /\ view.cells[p] = score(df.rows[Min(RecordsOf(p))].Status)
                    ELSE IF valued = {} THEN p \notin DOMAIN view.cells
                    ELSE p \in DOMAIN view.cells /\ view.cells[p] = df.rows[Min(valued)].Status

\* A table was rendered over a pair that has two records of different
\* Status, neither missing.
C10_Witness ==
    /\ view.kind = "table"
    /\ \E p \in view.index \X view.columns :
          \E i, j \in RecordsOf(p) :
              /\ i < j
              /\ df.rows[i].Status # NaN
              /\ df.rows[j].Status # NaN
              /\ df.rows[i].Status # df.rows[j].Status
====
